---- MODULE Spec2Model ----
(***************************************************************************)
(* A model of nx-apphubd (src/nx_apphub_daemon/main.py): the per-artifact  *)
(* integration worker, the deletion handler, the startup sweep and the     *)
(* pure helpers they use.                                                  *)
(*                                                                         *)
(* Strings are sequences of one-character strings, so that the code's      *)
(* substring, prefix, split and strip operations are computed and not      *)
(* assumed.                                                                *)
(***************************************************************************)
EXTENDS Integers, Sequences, FiniteSets, TLC

(***************************************************************************)
(* String helpers (Python str operations used by the code).                *)
(***************************************************************************)

\* s.startswith(p)
StartsWith(s, p) == Len(p) <= Len(s) /\ SubSeq(s, 1, Len(p)) = p

\* s.endswith(p)
EndsWith(s, p) == Len(p) <= Len(s) /\ SubSeq(s, Len(s) - Len(p) + 1, Len(s)) = p

\* sub in s
Contains(s, sub) ==
  \E i \in 1..(Len(s) - Len(sub) + 1) : SubSeq(s, i, i + Len(sub) - 1) = sub

\* the characters str.strip() and str.split() treat as whitespace
Whitespace == {" ", "\n", "\t"}

\* s.lstrip(chars)
RECURSIVE LStripSet(_, _)
LStripSet(s, cs) ==
  IF s # <<>> /\ Head(s) \in cs THEN LStripSet(Tail(s), cs) ELSE s

\* s.rstrip(chars)
RECURSIVE RStripSet(_, _)
RStripSet(s, cs) ==
  IF s # <<>> /\ s[Len(s)] \in cs THEN RStripSet(SubSeq(s, 1, Len(s) - 1), cs) ELSE s

\* s.strip(chars)
StripSet(s, cs) == RStripSet(LStripSet(s, cs), cs)

\* s.strip()
Strip(s) == StripSet(s, Whitespace)

\* s.split(sep) for a one-character separator: always at least one part
RECURSIVE SplitOn(_, _)
SplitOn(s, sep) ==
  IF \E i \in 1..Len(s) : s[i] = sep
  THEN LET i == CHOOSE k \in 1..Len(s) :
                  s[k] = sep /\ \A j \in 1..(k - 1) : s[j] # sep
       IN  <<SubSeq(s, 1, i - 1)>> \o SplitOn(SubSeq(s, i + 1, Len(s)), sep)
  ELSE <<s>>

\* s.split()[0]: the first whitespace-delimited word (<<>> when there is none,
\* where the code raises IndexError)
FirstWord(s) ==
  LET t == LStripSet(s, Whitespace)
  IN  IF \E i \in 1..Len(t) : t[i] \in Whitespace
      THEN LET i == CHOOSE k \in 1..Len(t) :
                      t[k] \in Whitespace /\ \A j \in 1..(k - 1) : t[j] \notin Whitespace
           IN  SubSeq(t, 1, i - 1)
      ELSE t

\* '-'.join(parts)
RECURSIVE JoinDash(_)
JoinDash(parts) ==
  IF parts = <<>> THEN <<>>
  ELSE IF Len(parts) = 1 THEN parts[1]
  ELSE parts[1] \o <<"-">> \o JoinDash(Tail(parts))

Digits == {"0", "1", "2", "3", "4", "5", "6", "7", "8", "9"}

\* re.search(r'\d', s)
HasDigit(s) == \E i \in 1..Len(s) : s[i] \in Digits

(***************************************************************************)
(* Name derivation.                                                        *)
(***************************************************************************)

\* re.sub(r'[:+~]', '-', name)
sanitize_name(name) ==
  [i \in 1..Len(name) |-> IF name[i] \in {":", "+", "~"} THEN "-" ELSE name[i]]

\* a stripping that also drops a '-' that nothing follows, for comparison
StripLastTokenOrDash(stem) ==
  IF \E i \in 1..Len(stem) : stem[i] = "-"
  THEN LET i == CHOOSE k \in 1..Len(stem) :
                  stem[k] = "-" /\ \A j \in (k + 1)..Len(stem) : stem[j] # "-"
       IN  SubSeq(stem, 1, i - 1)
  ELSE stem

\* re.sub(r'-[^-]+$', '', stem): drop the last '-' and what follows it, when
\* something follows it
StripLastToken(stem) ==
  IF \E i \in 1..(Len(stem) - 1) : stem[i] = "-" /\ \A j \in (i + 1)..Len(stem) : stem[j] # "-"
  THEN LET i == CHOOSE k \in 1..(Len(stem) - 1) :
                  stem[k] = "-" /\ \A j \in (k + 1)..Len(stem) : stem[j] # "-"
       IN  SubSeq(stem, 1, i - 1)
  ELSE stem

get_base_app_name(filename_stem) ==
  LET stripped == StripLastToken(filename_stem)
      parts    == SplitOn(stripped, "-")
  IN  IF Len(parts) >= 2 /\ ~HasDigit(parts[2])
      THEN JoinDash(SubSeq(parts, 1, 2))
      ELSE parts[1]

\* sanitize_name(get_base_app_name(stem)): the join key of an artifact
AppName(stem) == sanitize_name(get_base_app_name(stem))

(***************************************************************************)
(* Trust validation.                                                       *)
(***************************************************************************)

\* reverse_arch_mapping.get(yaml_arch, yaml_arch)
expected_arch(yaml_arch) ==
  IF yaml_arch = <<"a", "m", "d", "6", "4">> THEN <<"x", "8", "6", "_", "6", "4">>
  ELSE IF yaml_arch = <<"a", "r", "m", "6", "4">> THEN <<"a", "a", "r", "c", "h", "6", "4">>
  ELSE yaml_arch

\* the loop over app.yml files: some manifest with a non-empty name matches the
\* stem's prefix and its last token
found_yaml(manifests, filename_stem) ==
  LET parts     == SplitOn(filename_stem, "-")
      file_arch == parts[Len(parts)]
  IN  \E m \in manifests :
        /\ m.name # <<>>
        /\ StartsWith(filename_stem, m.name \o <<"-">>)
        /\ file_arch = expected_arch(m.arch)

\* a fail-open validator, for comparison: an absent trust store is passed over
\* and the checks that need it are skipped
is_valid_appbox_fail_open(exists, elf, st, filename_stem) ==
  IF ~exists THEN "File does not exist"
  ELSE IF ~elf THEN "Not a valid ELF binary"
  ELSE IF ~st.present THEN "Valid AppBox"
  ELSE IF Len(SplitOn(filename_stem, "-")) < 3 THEN "Invalid AppBox filename format"
  ELSE IF ~found_yaml(st.manifests, filename_stem)
       THEN "No corresponding YAML definition found - not a valid AppBox"
  ELSE IF filename_stem \notin st.markers
       THEN "No build marker found - AppBox not built by nx-apphub-cli"
  ELSE "Valid AppBox"

\* a validator that looks at the filename format before it looks for the trust
\* store, for comparison
is_valid_appbox_format_first(exists, elf, st, filename_stem) ==
  IF ~exists THEN "File does not exist"
  ELSE IF ~elf THEN "Not a valid ELF binary"
  ELSE IF Len(SplitOn(filename_stem, "-")) < 3 THEN "Invalid AppBox filename format"
  ELSE IF ~st.present THEN "No nx-apphub-cli directory found - AppBox definitions missing"
  ELSE IF ~found_yaml(st.manifests, filename_stem)
       THEN "No corresponding YAML definition found - not a valid AppBox"
  ELSE IF filename_stem \notin st.markers
       THEN "No build marker found - AppBox not built by nx-apphub-cli"
  ELSE "Valid AppBox"

\* is_valid_appbox: the reason it returns ("Valid AppBox" when it returns True).
\* exists: path.exists(); elf: the first four bytes are the ELF magic;
\* st: the trust store [present, manifests, markers]
is_valid_appbox(exists, elf, st, filename_stem) ==
  IF ~exists THEN "File does not exist"
  ELSE IF ~elf THEN "Not a valid ELF binary"
  ELSE IF ~st.present THEN "No nx-apphub-cli directory found - AppBox definitions missing"
  ELSE IF Len(SplitOn(filename_stem, "-")) < 3 THEN "Invalid AppBox filename format"
  ELSE IF ~found_yaml(st.manifests, filename_stem)
       THEN "No corresponding YAML definition found - not a valid AppBox"
  ELSE IF filename_stem \notin st.markers
       THEN "No build marker found - AppBox not built by nx-apphub-cli"
  ELSE "Valid AppBox"

(***************************************************************************)
(* The alias file: a sequence of lines, each ending in a newline.          *)
(***************************************************************************)

AliasForText == <<"#", " ", "A", "l", "i", "a", "s", " ", "f", "o", "r">>
AliasText    == <<"a", "l", "i", "a", "s", " ">>

\* f"# Alias for {alias_name}\n"
AliasHeader(alias_name) == AliasForText \o <<" ">> \o alias_name \o <<"\n">>

\* f"alias {alias_name}='{str(appbox_path)}'\n"
AliasCmd(alias_name, path) ==
  AliasText \o alias_name \o <<"=", "'">> \o path \o <<"'", "\n">>

\* a block test that takes any header and alias line beginning with the name,
\* for comparison
IsBlockAtPrefix(lines, i, alias_name) ==
  /\ StartsWith(Strip(lines[i]), Strip(AliasHeader(alias_name)))
  /\ i + 1 <= Len(lines)
  /\ StartsWith(Strip(lines[i + 1]), AliasText \o alias_name)

\* line i opens a block of alias_name: the header, with its alias line right after it
IsBlockAt(lines, i, alias_name) ==
  /\ Strip(lines[i]) = Strip(AliasHeader(alias_name))
  /\ i + 1 <= Len(lines)
  /\ StartsWith(Strip(lines[i + 1]), AliasText \o alias_name \o <<"=">>)

\* a loop that drops the header of a block and keeps its alias line, for
\* comparison
RECURSIVE AliasKeepHeaderOnly(_, _, _, _)
AliasKeepHeaderOnly(lines, i, skip, alias_name) ==
  IF i > Len(lines) THEN <<>>
  ELSE IF IsBlockAt(lines, i, alias_name)
       THEN AliasKeepHeaderOnly(lines, i + 1, FALSE, alias_name)
  ELSE <<lines[i]>> \o AliasKeepHeaderOnly(lines, i + 1, FALSE, alias_name)

\* the loop of update_alias_file from line i on; skip: the previous line opened a block
RECURSIVE AliasKeep(_, _, _, _)
AliasKeep(lines, i, skip, alias_name) ==
  IF i > Len(lines) THEN <<>>
  ELSE IF skip THEN AliasKeep(lines, i + 1, FALSE, alias_name)
  ELSE IF IsBlockAt(lines, i, alias_name) THEN AliasKeep(lines, i + 1, TRUE, alias_name)
  ELSE <<lines[i]>> \o AliasKeep(lines, i + 1, FALSE, alias_name)

\* update_alias_file: the lines written back
update_alias_file(lines, alias_name, path, remove) ==
  LET new_lines == AliasKeep(lines, 1, FALSE, alias_name)
  IN  IF remove THEN new_lines
      ELSE (IF new_lines # <<>> /\ Strip(new_lines[Len(new_lines)]) # <<>>
            THEN new_lines \o << <<"\n">> >> ELSE new_lines)
           \o <<AliasHeader(alias_name), AliasCmd(alias_name, path)>>

\* f.readlines(): the lines of a file's text, each with its newline; only the
\* last one may lack it
RECURSIVE readlines(_)
readlines(text) ==
  IF text = <<>> THEN <<>>
  ELSE IF \E i \in 1..Len(text) : text[i] = "\n"
       THEN LET i == CHOOSE k \in 1..Len(text) :
                       text[k] = "\n" /\ \A j \in 1..(k - 1) : text[j] # "\n"
            IN  <<SubSeq(text, 1, i)>> \o readlines(SubSeq(text, i + 1, Len(text)))
       ELSE <<text>>

\* f.writelines(lines): the text of the file written
RECURSIVE writelines(_)
writelines(lines) ==
  IF lines = <<>> THEN <<>> ELSE Head(lines) \o writelines(Tail(lines))

\* update_alias_file from the text it reads to the text it writes
AliasFileAfter(text, alias_name, path, remove) ==
  writelines(update_alias_file(readlines(text), alias_name, path, remove))

\* re.search(r"='([^']+)'", cmd_line): the quoted text, <<>> when there is no match
QuotedPath(cmd_line) ==
  LET Starts == {i \in 1..(Len(cmd_line) - 3) :
                   /\ cmd_line[i] = "=" /\ cmd_line[i + 1] = "'" /\ cmd_line[i + 2] # "'"
                   /\ \E j \in (i + 3)..Len(cmd_line) : cmd_line[j] = "'"}
  IN  IF Starts = {} THEN <<>>
      ELSE LET i == CHOOSE k \in Starts : \A l \in Starts : k <= l
               j == CHOOSE k \in (i + 3)..Len(cmd_line) :
                      cmd_line[k] = "'" /\ \A l \in (i + 3)..(k - 1) : cmd_line[l] # "'"
           IN  SubSeq(cmd_line, i + 2, j - 1)

(***************************************************************************)
(* The directories and the artifacts of the model.                         *)
(***************************************************************************)

\* watch_dir, icons_dir (short stand-ins for the paths under the home directory)
WatchDir == <<"/", "w">>
IconsDir == <<"/", "i", "/", "n">>
AppBoxExt == <<".", "A", "p", "p", "B", "o", "x">>
DesktopExt == <<".", "d", "e", "s", "k", "t", "o", "p">>

\* the artifacts that may appear in the watched directory, by file name stem:
\* a1 and a2 are two versions of one application, a3 needs sanitizing
Arts == {"a1", "a2", "a3"}
Stem(a) ==
  CASE a = "a1" -> <<"a", "p", "p", "-", "1", "-", "x", "8", "6", "_", "6", "4">>
    [] a = "a2" -> <<"a", "p", "p", "-", "2", "-", "x", "8", "6", "_", "6", "4">>
    [] OTHER    -> <<"c", "+", "t", "-", "1", "-", "x", "8", "6", "_", "6", "4">>

\* str(appbox_path)
PathOf(a) == WatchDir \o <<"/">> \o Stem(a) \o AppBoxExt

\* sanitize_name(get_base_app_name(appbox_path.stem))
NameOf(a) == AppName(Stem(a))

\* desktop_file_path.name: f"{sanitized_name}.desktop"
DesktopFile(name) == name \o DesktopExt

\* specific_extract_dir.name: sanitize_name(appbox_path.stem)
WsName(a) == sanitize_name(Stem(a))

\* icons_dir / f"{sanitized_name}{icon_file.suffix}"
IconDest(name, suffix) == IconsDir \o <<"/">> \o name \o suffix

\* the components of a path, as pathlib keeps them: empty and "." components are
\* dropped, ".." is kept
RECURSIVE DropDots(_)
DropDots(parts) ==
  IF parts = <<>> THEN <<>>
  ELSE IF Head(parts) = <<>> \/ Head(parts) = <<".">> THEN DropDots(Tail(parts))
  ELSE <<Head(parts)>> \o DropDots(Tail(parts))

Components(path) == DropDots(SplitOn(path, "/"))

\* dir in Path(path).parents: a lexical test on the components
InParents(dir, path) ==
  LET d == Components(dir)
      c == Components(path)
  IN  /\ path # <<>> /\ Head(path) = "/"
      /\ Len(d) < Len(c)
      /\ SubSeq(c, 1, Len(d)) = d

\* the file an absolute path names once the file system has resolved its ".."
RECURSIVE Collapse(_, _)
Collapse(done, rest) ==
  IF rest = <<>> THEN done
  ELSE IF Head(rest) = <<".", ".">>
       THEN Collapse(IF done = <<>> THEN <<>> ELSE SubSeq(done, 1, Len(done) - 1), Tail(rest))
  ELSE Collapse(done \o <<Head(rest)>>, Tail(rest))

RECURSIVE JoinSlash(_)
JoinSlash(parts) ==
  IF parts = <<>> THEN <<>> ELSE <<"/">> \o Head(parts) \o JoinSlash(Tail(parts))

Resolve(path) == JoinSlash(Collapse(<<>>, Components(path)))

(***************************************************************************)
(* Bounds of the model.                                                    *)
(***************************************************************************)

\* integration workers that may be started in one run
MaxWorkers == 2
\* changes of the watched directory (a file created or deleted, an event duplicated)
MaxOps == 2
\* polls of wait_until_file_ready before its timeout elapses (timeout / interval)
MaxPolls == 3
\* the largest file size a growing artifact reaches
MaxSize == 4
\* extraction attempts the environment may answer with ETXTBSY in one run
MaxBusy == 6
\* terminated lines of an alias file that update_alias_file is applied to
MaxLines == 3
\* calls of update_alias_file applied to one alias file
MaxCalls == 2
MaxTokens == 4

\* max_retries of integrate_appbox
max_retries == 5

(***************************************************************************)
(* State.                                                                  *)
(***************************************************************************)

VARIABLES
  files,      \* the artifacts present in the watched directory
  fsize,      \* the size of each artifact's file
  growing,    \* the artifacts still being written
  readable,   \* os.access(path, R_OK) of each artifact
  bundle,     \* what each artifact is: ELF magic, extraction result, embedded files
  store,      \* the trusted manifest store: [present, manifests, markers]
  apps,       \* apps_dir: menu entry file name -> [Exec, TryExec, Icon, NoDisplay]
  icons,      \* the icon files that exist, by resolved path
  aliasLines, \* the lines of alias_file
  ws,         \* extract_dir: workspace name -> [of, files]
  workers,    \* the integration threads
  events,     \* the events the observer has not dispatched yet
  hpc,        \* the observer thread: "idle", or inside remove_integration
  mpc,        \* main(): "clean_entries", "clean_alias", "scan", "watch"
  ops,        \* changes of the watched directory so far
  busyLeft,   \* ETXTBSY answers the environment may still give
  log,        \* what the engine did: unlinked entries and icons, extractions run
  ioFaulty,   \* the file system may answer a copy or a write with an I/O error
  file_lock,  \* the threads inside "with file_lock:" (0: the observer thread)
  abuf,       \* what each thread read from alias_file inside the lock
  probe       \* the input and the result of a helper function applied on its own

vars == <<files, fsize, growing, readable, bundle, store, apps, icons, aliasLines,
          ws, workers, events, hpc, mpc, ops, busyLeft, log, ioFaulty, file_lock, abuf,
          probe>>

lockVars == <<file_lock, abuf>>

\* the threads that call update_alias_file: the integration threads, and the
\* observer thread as number 0
Callers == 0..MaxWorkers

envVars == <<files, fsize, growing, readable, bundle, store, ioFaulty, probe>>

PngExt == <<".", "p", "n", "g">>
SvgExt == <<".", "s", "v", "g">>

\* the files an extraction leaves in squashfs-root: 0 is the menu-entry
\* descriptor, j >= 1 the j-th icon in os.walk order
BundleFiles(b) ==
  (IF b.desktop = "none" THEN {} ELSE {0}) \cup (1..Len(b.icons))

\* str.lower() on the letters a NoDisplay value of the model uses
LowerChar(c) ==
  CASE c = "T" -> "t" [] c = "R" -> "r" [] c = "U" -> "u" [] c = "E" -> "e"
    [] c = "F" -> "f" [] c = "A" -> "a" [] c = "L" -> "l" [] c = "S" -> "s"
    [] OTHER -> c
Lower(s) == [i \in 1..Len(s) |-> LowerChar(s[i])]

\* a test that compares without lower(), for comparison
is_cli_app_exact(nodisplay) == nodisplay = <<"t", "r", "u", "e">>

\* parser['Desktop Entry'].get('NoDisplay', 'false').lower() == 'true'
is_cli_app(nodisplay) ==
  Lower(IF nodisplay = <<>> THEN <<"f", "a", "l", "s", "e">> ELSE nodisplay) = <<"t", "r", "u", "e">>

IdleWorker ==
  [pc |-> "idle", art |-> "none", last_size |-> -1, polls |-> 0, seen |-> <<>>,
   attempt |-> 0, desk |-> FALSE, icon |-> 0, icon_dest |-> <<>>, todo |-> {},
   result |-> "none", notes |-> <<>>, tries |-> <<>>]

\* a thread started on an artifact: integrate_appbox begins
StartedWorker(a) == [IdleWorker EXCEPT !.pc = "poll", !.art = a]

\* a thread that returned (or died): only what it was for and how it ended is kept
Finished(w, how) ==
  [IdleWorker EXCEPT !.pc = "done", !.art = w.art, !.result = how, !.seen = w.seen,
                     !.notes = w.notes, !.tries = w.tries]

FreeSlots == {i \in 1..MaxWorkers : workers[i].pc = "idle"}
Running == {i \in 1..MaxWorkers : workers[i].pc \notin {"idle", "done"}}

\* the files of a workspace directory ({} when the directory does not exist)
WsFiles(k) == IF k \in DOMAIN ws THEN ws[k].files ELSE {}

\* a function with one more (or one replaced) key
Put(f, k, v) == [x \in DOMAIN f \cup {k} |-> IF x = k THEN v ELSE f[x]]
\* a function without a set of keys
Drop(f, ks) == [x \in DOMAIN f \ ks |-> f[x]]

(***************************************************************************)
(* wait_until_file_ready and integrate_appbox, one step per file-system    *)
(* operation of the thread.                                                *)
(***************************************************************************)

\* a readiness test that does not compare sizes, for comparison
ReadyNowReadableOnly(current_size, last_size, can_read) == can_read

\* current_size == last_size and os.access(path, os.R_OK)
ReadyNow(current_size, last_size, can_read) == current_size = last_size /\ can_read

\* one iteration of the polling loop, or the timeout
Poll(i) ==
  /\ workers[i].pc = "poll"
  /\ LET w == workers[i]
         a == w.art
     IN  IF w.polls >= MaxPolls
         THEN workers' = [workers EXCEPT ![i] = Finished(w, "timeout")]
         ELSE IF a \in files
         THEN LET obs == Append(w.seen, <<fsize[a], readable[a]>>)
              IN  IF ReadyNow(fsize[a], w.last_size, readable[a])
                  THEN workers' = [workers EXCEPT ![i] =
                         [w EXCEPT !.pc = "validate", !.seen = obs,
                                   !.last_size = -1, !.polls = 0]]
                  ELSE workers' = [workers EXCEPT ![i] =
                         [w EXCEPT !.last_size = fsize[a], !.polls = w.polls + 1,
                                   !.seen = obs]]
         ELSE workers' = [workers EXCEPT ![i] = [w EXCEPT !.polls = w.polls + 1]]
  /\ UNCHANGED lockVars
  /\ UNCHANGED <<envVars, apps, icons, aliasLines, ws, events, hpc, mpc, ops, busyLeft, log>>

\* is_valid_appbox, and the return with a "failed" notification when it fails
Validate(i) ==
  /\ workers[i].pc = "validate"
  /\ LET w == workers[i]
         a == w.art
         validation_reason == is_valid_appbox(a \in files, bundle[a].elf, store, Stem(a))
     IN  IF validation_reason = "Valid AppBox"
         THEN workers' = [workers EXCEPT ![i] = [w EXCEPT !.pc = "gate"]]
         ELSE workers' = [workers EXCEPT ![i] =
                Finished([w EXCEPT !.notes = Append(w.notes, "Integration Failed")],
                         "invalid")]
  /\ UNCHANGED lockVars
  /\ UNCHANGED <<envVars, apps, icons, aliasLines, ws, events, hpc, mpc, ops, busyLeft, log>>

\* desktop_file_path.exists()
AlreadyIntegrated(name, entries) == DesktopFile(name) \in DOMAIN entries

\* the chmod of a file that is gone raises in the thread; then the check that the
\* menu entry already exists
Gate(i) ==
  /\ workers[i].pc = "gate"
  /\ LET w == workers[i]
         a == w.art
     IN  IF a \notin files
         THEN workers' = [workers EXCEPT ![i] = Finished(w, "crashed")]
         ELSE IF AlreadyIntegrated(NameOf(a), apps)
         THEN workers' = [workers EXCEPT ![i] = Finished(w, "skipped")]
         ELSE workers' = [workers EXCEPT ![i] = [w EXCEPT !.pc = "mkdir"]]
  /\ UNCHANGED lockVars
  /\ UNCHANGED <<envVars, apps, icons, aliasLines, ws, events, hpc, mpc, ops, busyLeft, log>>

\* specific_extract_dir.mkdir(parents=True, exist_ok=True)
Mkdir(i) ==
  /\ workers[i].pc = "mkdir"
  /\ LET w == workers[i]
         k == WsName(w.art)
     IN  /\ ws' = IF k \in DOMAIN ws THEN ws ELSE Put(ws, k, [of |-> w.art, files |-> {}])
         /\ workers' = [workers EXCEPT ![i] = [w EXCEPT !.pc = "extract", !.attempt = 0]]
  /\ UNCHANGED lockVars
  /\ UNCHANGED <<envVars, apps, icons, aliasLines, events, hpc, mpc, ops, busyLeft, log>>

\* what one subprocess.run of the extraction may do: it raises OSError when the
\* working directory or the artifact is gone, ETXTBSY while the file is busy
ExtractOutcomes(a) ==
  IF WsName(a) \notin DOMAIN ws \/ a \notin files THEN {"error"}
  ELSE {bundle[a].extract} \cup (IF busyLeft > 0 THEN {"busy"} ELSE {})

\* a loop that allows one attempt more, for comparison
RetryAgainInclusive(n) == n <= max_retries

\* the for loop goes on to another attempt after attempt number n (from 1) was busy
RetryAgain(n) == n < max_retries

\* one attempt of the extraction loop
Extract(i) ==
  /\ workers[i].pc = "extract"
  /\ LET w == workers[i]
         a == w.art
         k == WsName(a)
     IN  \E o \in ExtractOutcomes(a) :
           /\ log' = [log EXCEPT !.extractions = @ \cup {a}]
           /\ IF o = "ok"
              THEN /\ ws' = Put(ws, k, [of |-> a, files |-> ws[k].files \cup BundleFiles(bundle[a])])
                   /\ workers' = [workers EXCEPT ![i] =
                        [w EXCEPT !.pc = "find_desktop", !.attempt = 0,
                                  !.tries = Append(w.tries, o)]]
                   /\ UNCHANGED busyLeft
              ELSE IF o = "busy"
              THEN /\ busyLeft' = busyLeft - 1
                   /\ ws' = ws
                   /\ IF RetryAgain(w.attempt + 1)
                      THEN workers' = [workers EXCEPT ![i] =
                             [w EXCEPT !.attempt = w.attempt + 1,
                                       !.tries = Append(w.tries, o)]]
                      ELSE workers' = [workers EXCEPT ![i] =
                             [w EXCEPT !.pc = "rmtree", !.attempt = 0,
                                       !.tries = Append(w.tries, o),
                                       !.result = "extract_failed"]]
              ELSE /\ ws' = ws
                   /\ workers' = [workers EXCEPT ![i] =
                        [w EXCEPT !.pc = "rmtree", !.attempt = 0,
                                  !.tries = Append(w.tries, o),
                                  !.result = "extract_failed"]]
                   /\ UNCHANGED busyLeft
  /\ UNCHANGED lockVars
  /\ UNCHANGED <<envVars, apps, icons, aliasLines, events, hpc, mpc, ops>>

\* the first os.walk: a file ending in ".desktop"
FindDesktop(i) ==
  /\ workers[i].pc = "find_desktop"
  /\ LET w == workers[i]
         k == WsName(w.art)
     IN  IF 0 \in WsFiles(k)
         THEN workers' = [workers EXCEPT ![i] = [w EXCEPT !.pc = "find_icon", !.desk = TRUE]]
         ELSE workers' = [workers EXCEPT ![i] =
                [w EXCEPT !.pc = "rmtree", !.result = "no_desktop"]]
  /\ UNCHANGED lockVars
  /\ UNCHANGED <<envVars, apps, icons, aliasLines, ws, events, hpc, mpc, ops, busyLeft, log>>

\* the second os.walk: the first icon file, in walk order, that is there (0: none)
FirstIcon(present) ==
  IF present \ {0} = {} THEN 0
  ELSE CHOOSE j \in present \ {0} : \A l \in present \ {0} : j <= l

FindIcon(i) ==
  /\ workers[i].pc = "find_icon"
  /\ LET w == workers[i]
         k == WsName(w.art)
         j == FirstIcon(WsFiles(k))
     IN  workers' = [workers EXCEPT ![i] =
           [w EXCEPT !.pc = IF j = 0 THEN "parse" ELSE "copy_icon", !.icon = j]]
  /\ UNCHANGED lockVars
  /\ UNCHANGED <<envVars, apps, icons, aliasLines, ws, events, hpc, mpc, ops, busyLeft, log>>

\* whether a copy or a write raises OSError: the choices the file system has
FaultChoices == IF ioFaulty THEN {TRUE, FALSE} ELSE {FALSE}

\* shutil.copy(icon_file, icon_dest): raises in the thread when the source is
\* gone or the copy fails; nothing catches it, the thread ends there
CopyIcon(i) ==
  /\ workers[i].pc = "copy_icon"
  /\ LET w == workers[i]
         a == w.art
         k == WsName(a)
         dest == IconDest(NameOf(a), bundle[a].icons[w.icon])
     IN  \E fail \in FaultChoices :
           IF w.icon \in WsFiles(k) /\ ~fail
           THEN /\ icons' = icons \cup {dest}
                /\ log' = [log EXCEPT !.written = @ \cup {a}]
                /\ workers' = [workers EXCEPT ![i] =
                     [w EXCEPT !.pc = "parse", !.icon_dest = dest, !.icon = 0]]
           ELSE /\ workers' = [workers EXCEPT ![i] = Finished(w, "io_error")]
                /\ UNCHANGED <<icons, log>>
  /\ UNCHANGED lockVars
  /\ UNCHANGED <<envVars, apps, aliasLines, ws, events, hpc, mpc, ops, busyLeft>>

\* parser.read (which skips a file it cannot open) and the [Desktop Entry] test
Parse(i) ==
  /\ workers[i].pc = "parse"
  /\ LET w == workers[i]
         a == w.art
         k == WsName(a)
     IN  IF 0 \in WsFiles(k) /\ bundle[a].desktop = "ok"
         THEN workers' = [workers EXCEPT ![i] = [w EXCEPT !.pc = "write"]]
         ELSE workers' = [workers EXCEPT ![i] =
                [w EXCEPT !.pc = "rmtree", !.result = "bad_desktop"]]
  /\ UNCHANGED lockVars
  /\ UNCHANGED <<envVars, apps, icons, aliasLines, ws, events, hpc, mpc, ops, busyLeft, log>>

\* the menu entry integrate_appbox writes: Exec and TryExec rewritten, Icon
\* rewritten when an icon was copied
NewEntry(a, icon_dest) ==
  [Exec |-> PathOf(a), TryExec |-> PathOf(a),
   Icon |-> IF icon_dest # <<>> THEN icon_dest ELSE bundle[a].iconkey,
   NoDisplay |-> bundle[a].nodisplay]

\* the write of the menu entry and the "installed" notification; an OSError of
\* open() ends the thread
WriteEntry(i) ==
  /\ workers[i].pc = "write"
  /\ LET w == workers[i]
         a == w.art
     IN  \E fail \in FaultChoices :
           IF fail
           THEN /\ workers' = [workers EXCEPT ![i] = Finished(w, "io_error")]
                /\ UNCHANGED <<apps, log>>
           ELSE /\ apps' = Put(apps, DesktopFile(NameOf(a)), NewEntry(a, w.icon_dest))
                /\ log' = [log EXCEPT !.written = @ \cup {a}]
                /\ workers' = [workers EXCEPT ![i] =
                     [w EXCEPT !.pc = IF is_cli_app(bundle[a].nodisplay)
                                      THEN "alias" ELSE "rmtree",
                               !.result = "installed",
                               !.notes = Append(w.notes, "Application Installed")]]
  /\ UNCHANGED lockVars
  /\ UNCHANGED <<envVars, icons, aliasLines, ws, events, hpc, mpc, ops, busyLeft>>

\* update_alias_file(sanitized_name, appbox_path, remove=False), under
\* file_lock; an OSError of its open() ends the thread
AddAlias(i) ==
  /\ workers[i].pc = "alias"
  /\ LET w == workers[i]
         a == w.art
     IN  \E fail \in FaultChoices :
           IF fail
           THEN /\ workers' = [workers EXCEPT ![i] = Finished(w, "io_error")]
                /\ UNCHANGED <<aliasLines, log>>
           ELSE /\ aliasLines' = update_alias_file(aliasLines, NameOf(a), PathOf(a), FALSE)
                /\ log' = [log EXCEPT !.written = @ \cup {a}]
                /\ workers' = [workers EXCEPT ![i] = [w EXCEPT !.pc = "rmtree"]]
  /\ UNCHANGED lockVars
  /\ UNCHANGED <<envVars, apps, icons, ws, events, hpc, mpc, ops, busyLeft>>

\* shutil.rmtree(specific_extract_dir, ignore_errors=True): it lists the
\* directory first
Rmtree(i) ==
  /\ workers[i].pc = "rmtree"
  /\ LET w == workers[i]
         k == WsName(w.art)
     IN  IF k \in DOMAIN ws
         THEN workers' = [workers EXCEPT ![i] =
                [w EXCEPT !.pc = "unlink", !.todo = ws[k].files, !.desk = FALSE,
                          !.icon_dest = <<>>]]
         ELSE workers' = [workers EXCEPT ![i] = Finished(w, w.result)]
  /\ UNCHANGED lockVars
  /\ UNCHANGED <<envVars, apps, icons, aliasLines, ws, events, hpc, mpc, ops, busyLeft, log>>

\* rmtree goes on: it unlinks the listed files one by one, in the directory's
\* order, then removes the directory if that is empty; every error is ignored
Unlink(i) ==
  /\ workers[i].pc = "unlink"
  /\ LET w == workers[i]
         k == WsName(w.art)
     IN  IF w.todo # {}
         THEN \E f \in w.todo :
                /\ ws' = IF k \in DOMAIN ws
                         THEN [ws EXCEPT ![k].files = @ \ {f}] ELSE ws
                /\ workers' = [workers EXCEPT ![i] = [w EXCEPT !.todo = w.todo \ {f}]]
         ELSE /\ ws' = IF k \in DOMAIN ws /\ ws[k].files = {} THEN Drop(ws, {k}) ELSE ws
              /\ workers' = [workers EXCEPT ![i] = Finished(w, w.result)]
  /\ UNCHANGED lockVars
  /\ UNCHANGED <<envVars, apps, icons, aliasLines, events, hpc, mpc, ops, busyLeft, log>>

WorkerStep(i) ==
  \/ Poll(i) \/ Validate(i) \/ Gate(i) \/ Mkdir(i) \/ Extract(i) \/ FindDesktop(i)
  \/ FindIcon(i) \/ CopyIcon(i) \/ Parse(i) \/ WriteEntry(i) \/ AddAlias(i)
  \/ Rmtree(i) \/ Unlink(i)

(***************************************************************************)
(* The watched directory and the observer thread.                          *)
(***************************************************************************)

\* a file appears in the watched directory; the observer queues its event.
\* The directory changes only once the observer runs (mpc = "watch"): what is
\* there before is part of the initial state
CreateFile(a) ==
  /\ mpc = "watch" /\ ops < MaxOps /\ a \notin files
  /\ files' = files \cup {a}
  /\ events' = Append(events, [kind |-> "created", art |-> a])
  /\ ops' = ops + 1
  /\ UNCHANGED lockVars
  /\ UNCHANGED <<fsize, growing, readable, bundle, store, ioFaulty, probe, apps, icons, aliasLines,
                 ws, workers, hpc, mpc, busyLeft, log>>

\* a file is removed from the watched directory
DeleteFile(a) ==
  /\ mpc = "watch" /\ ops < MaxOps /\ a \in files
  /\ files' = files \ {a}
  /\ events' = Append(events, [kind |-> "deleted", art |-> a])
  /\ ops' = ops + 1
  /\ log' = [log EXCEPT !.deleted = @ \cup {a}]
  /\ UNCHANGED lockVars
  /\ UNCHANGED <<fsize, growing, readable, bundle, store, ioFaulty, probe, apps, icons, aliasLines,
                 ws, workers, hpc, mpc, busyLeft>>

\* the creation event of a file that is there is delivered once more
DuplicateCreated(a) ==
  /\ mpc = "watch" /\ ops < MaxOps /\ a \in files
  /\ events' = Append(events, [kind |-> "created", art |-> a])
  /\ ops' = ops + 1
  /\ UNCHANGED lockVars
  /\ UNCHANGED <<envVars, apps, icons, aliasLines, ws, workers, hpc, mpc, busyLeft, log>>

\* the deletion event of a file that is gone is delivered once more
DuplicateDeleted(a) ==
  /\ mpc = "watch" /\ ops < MaxOps /\ a \notin files /\ a \in log.deleted
  /\ events' = Append(events, [kind |-> "deleted", art |-> a])
  /\ ops' = ops + 1
  /\ UNCHANGED lockVars
  /\ UNCHANGED <<envVars, apps, icons, aliasLines, ws, workers, hpc, mpc, busyLeft, log>>

\* AppBoxHandler.on_created: a thread is started on the path
OnCreated ==
  /\ mpc = "watch" /\ hpc.pc = "idle" /\ events # <<>>
  /\ Head(events).kind = "created"
  /\ FreeSlots # {}
  /\ LET i == CHOOSE k \in FreeSlots : \A l \in FreeSlots : k <= l
     IN  workers' = [workers EXCEPT ![i] = StartedWorker(Head(events).art)]
  /\ events' = Tail(events)
  /\ UNCHANGED lockVars
  /\ UNCHANGED <<envVars, apps, icons, aliasLines, ws, hpc, mpc, ops, busyLeft, log>>

\* remove_integration looks at this menu entry: appbox_name in file.name
NameMatches(appbox_name, file) == Contains(file, appbox_name)

\* remove_integration unlinks this menu entry: str(appbox_path) in exec_path
ExecMatches(path, exec_path) == Contains(exec_path, path)

\* icon_path.exists(): the file system resolves the path
IconExists(icon_path, present) ==
  icon_path # <<>> /\ Head(icon_path) = "/" /\ Resolve(icon_path) \in present

\* remove_integration unlinks this icon:
\* icon_path.exists() and icons_dir in icon_path.parents
IconRemovable(icon_path, present) ==
  IconExists(icon_path, present) /\ InParents(IconsDir, icon_path)

\* file.unlink() on each matching menu entry
Unlinked(entries, gone) == Drop(entries, gone)

\* AppBoxHandler.on_deleted, in the observer thread: the loop of
\* remove_integration over apps_dir
OnDeleted ==
  /\ mpc = "watch" /\ hpc.pc = "idle" /\ events # <<>>
  /\ Head(events).kind = "deleted"
  /\ LET a == Head(events).art
         gone == {f \in DOMAIN apps :
                    NameMatches(NameOf(a), f) /\ ExecMatches(PathOf(a), apps[f].Exec)}
         icongone == {Resolve(apps[f].Icon) : f \in {g \in gone :
                        IconRemovable(apps[g].Icon, icons)}}
     IN  /\ apps' = Unlinked(apps, gone)
         /\ icons' = icons \ icongone
         /\ log' = [log EXCEPT
              !.entriesGone = @ \cup {[file |-> f, Exec |-> apps[f].Exec,
                                        by |-> "deleted", art |-> a] : f \in gone},
              !.iconsGone = @ \cup icongone,
              !.handled[a] = @ + 1]
         /\ hpc' = IF gone # {} THEN [pc |-> "rm_alias", art |-> a]
                   ELSE [pc |-> "idle", art |-> "none"]
  /\ events' = Tail(events)
  /\ UNCHANGED lockVars
  /\ UNCHANGED <<envVars, aliasLines, ws, workers, mpc, ops, busyLeft>>

\* an OSError of update_alias_file is caught nowhere in remove_integration nor
\* in on_deleted: it reaches the dispatching loop of the observer thread, which
\* is library code; that loop either ends with it ("dead") or goes on
EscapedOutcomes == {"dead", "idle"}

\* remove_integration goes on when it removed something:
\* update_alias_file(appbox_name, appbox_path, remove=True) and the notification
RemoveAlias ==
  /\ hpc.pc = "rm_alias"
  /\ \E fail \in FaultChoices :
       IF fail
       THEN /\ \E after \in EscapedOutcomes : hpc' = [pc |-> after, art |-> "none"]
            /\ UNCHANGED <<aliasLines, log>>
       ELSE /\ aliasLines' = update_alias_file(aliasLines, NameOf(hpc.art),
                                              PathOf(hpc.art), TRUE)
            /\ log' = [log EXCEPT !.removedNotes = Append(@, hpc.art)]
            /\ hpc' = [pc |-> "idle", art |-> "none"]
  /\ UNCHANGED lockVars
  /\ UNCHANGED <<envVars, apps, icons, ws, workers, events, mpc, ops, busyLeft>>

(***************************************************************************)
(* The startup sweep of main(): clean_stale_integrations, then             *)
(* scan_existing_appboxes.                                                 *)
(***************************************************************************)

Quotes == {"'", "\""}

\* existing_appboxes = {str(p) for p in watch_dir.glob("*.AppBox")}
ExistingAppboxes == {PathOf(a) : a \in files}

\* clean_stale_integrations unlinks the menu entry with this Exec
StaleExec(exec, existing) ==
  LET exec_cmd == StripSet(exec, Quotes)
  IN  /\ Contains(exec_cmd, WatchDir)
      /\ StripSet(FirstWord(exec_cmd), Quotes) \notin existing

\* the first loop of clean_stale_integrations, over apps_dir
CleanEntries ==
  /\ mpc = "clean_entries"
  /\ LET stale == {f \in DOMAIN apps : StaleExec(apps[f].Exec, ExistingAppboxes)}
     IN  /\ apps' = Drop(apps, stale)
         /\ log' = [log EXCEPT
              !.entriesGone = @ \cup {[file |-> f, Exec |-> apps[f].Exec,
                                        by |-> "sweep", art |-> "none"] : f \in stale}]
  /\ mpc' = "clean_alias"
  /\ UNCHANGED lockVars
  /\ UNCHANGED <<envVars, icons, aliasLines, ws, workers, events, hpc, ops, busyLeft>>

\* line i opens a block the sweep removes
StaleBlockAt(lines, i, existing) ==
  /\ StartsWith(Strip(lines[i]), AliasForText)
  /\ i + 1 <= Len(lines)
  /\ Contains(lines[i + 1], AliasText)
  /\ LET path_str == QuotedPath(lines[i + 1])
     IN  path_str # <<>> /\ Contains(path_str, WatchDir) /\ path_str \notin existing

\* the loop of clean_stale_integrations over the alias file, from line i on
RECURSIVE StaleAliasKeep(_, _, _, _)
StaleAliasKeep(lines, i, skip, existing) ==
  IF i > Len(lines) THEN <<>>
  ELSE IF skip THEN StaleAliasKeep(lines, i + 1, FALSE, existing)
  ELSE IF StaleBlockAt(lines, i, existing) THEN StaleAliasKeep(lines, i + 1, TRUE, existing)
  ELSE <<lines[i]>> \o StaleAliasKeep(lines, i + 1, FALSE, existing)

\* the second part of clean_stale_integrations, under file_lock
CleanAlias ==
  /\ mpc = "clean_alias"
  /\ aliasLines' = StaleAliasKeep(aliasLines, 1, FALSE, ExistingAppboxes)
  /\ mpc' = "scan"
  /\ UNCHANGED lockVars
  /\ UNCHANGED <<envVars, apps, icons, ws, workers, events, hpc, ops, busyLeft, log>>

\* the artifacts in the order watch_dir.glob yields them
ArtOrder == <<"a1", "a2", "a3">>

\* a scan whose test is inverted, for comparison
UnintegratedInverted(a, entries) == AlreadyIntegrated(NameOf(a), entries)

\* scan_existing_appboxes starts a thread on this artifact
Unintegrated(a, entries) == ~AlreadyIntegrated(NameOf(a), entries)

\* scan_existing_appboxes, then the observer is started
Scan ==
  /\ mpc = "scan"
  /\ LET todo == SelectSeq(ArtOrder, LAMBDA a : a \in files /\ Unintegrated(a, apps))
     IN  /\ Len(todo) <= MaxWorkers
         /\ workers' = [i \in 1..MaxWorkers |->
              IF i <= Len(todo) THEN StartedWorker(todo[i]) ELSE workers[i]]
  /\ mpc' = "watch"
  /\ UNCHANGED lockVars
  /\ UNCHANGED <<envVars, apps, icons, aliasLines, ws, events, hpc, ops, busyLeft, log>>

(***************************************************************************)
(* Initial states: what main() finds when the daemon starts.               *)
(***************************************************************************)

EmptyFn == [x \in {} |-> 0]
Merge(f, g) == [x \in DOMAIN f \cup DOMAIN g |-> IF x \in DOMAIN g THEN g[x] ELSE f[x]]

\* a1: a command-line application (NoDisplay=True) with two icons;
\* a2: a graphical one with one icon; a3: a graphical one without icon
DefaultBundles ==
  [a \in Arts |->
     [elf |-> TRUE, extract |-> "ok", desktop |-> "ok",
      nodisplay |-> IF a = "a1" THEN <<"T", "r", "u", "e">> ELSE <<>>,
      iconkey |-> <<"a", "p", "p">>,
      icons |-> IF a = "a1" THEN <<PngExt, SvgExt>>
                ELSE IF a = "a2" THEN <<PngExt>> ELSE <<>>]]

\* the trust store with a manifest and a build marker for every artifact
FullStore ==
  [present |-> TRUE,
   manifests |-> {[name |-> <<"a", "p", "p">>, arch |-> <<"a", "m", "d", "6", "4">>],
                  [name |-> <<"c", "+", "t">>, arch |-> <<"x", "8", "6", "_", "6", "4">>]},
   markers |-> {Stem(a) : a \in Arts}]
\* the build marker of a3 is missing
PartialStore == [FullStore EXCEPT !.markers = {Stem("a1"), Stem("a2")}]
\* the store directory is absent
NoStore == [present |-> FALSE, manifests |-> {}, markers |-> {}]

\* an icon file outside the managed icon directory
OutsideIcon == <<"/", "i", "/", "o", ".", "p", "n", "g">>

\* a menu entry of another program, installed beside the watched directory
ForeignSibling ==
  [f \in {<<"w", "e", "b", ".", "d", "e", "s", "k", "t", "o", "p">>} |->
     [Exec |-> <<"/", "w", "x", "/", "t">>, TryExec |-> <<"/", "w", "x", "/", "t">>, Icon |-> OutsideIcon, NoDisplay |-> <<>>]]
\* a hand-made launcher of a1 whose Icon names the outside icon through ".."
ForeignLauncher ==
  [f \in {<<"a", "p", "p", "-", "a", "l", "t", ".", "d", "e", "s", "k", "t", "o", "p">>} |->
     [Exec |-> PathOf("a1") \o <<" ", "-", "x">>, TryExec |-> PathOf("a1"),
      Icon |-> IconsDir \o <<"/", ".", ".", "/", "o", ".", "p", "n", "g">>, NoDisplay |-> <<>>]]

\* what earlier runs of the daemon left for the artifacts of P (one per name)
InstalledApps(P) ==
  [n \in {DesktopFile(NameOf(a)) : a \in P} |->
     LET a == CHOOSE b \in P : DesktopFile(NameOf(b)) = n
     IN  NewEntry(a, IF bundle[a].icons = <<>> THEN <<>>
                     ELSE IconDest(NameOf(a), bundle[a].icons[1]))]
InstalledIcons(P) ==
  {IconDest(NameOf(a), bundle[a].icons[1]) : a \in {b \in P : bundle[b].icons # <<>>}}
RECURSIVE InstalledAlias(_, _)
InstalledAlias(P, order) ==
  IF order = <<>> THEN <<>>
  ELSE LET rest == InstalledAlias(P, SubSeq(order, 1, Len(order) - 1))
           a    == order[Len(order)]
       IN  IF a \in P /\ is_cli_app(bundle[a].nodisplay)
           THEN update_alias_file(rest, NameOf(a), PathOf(a), FALSE)
           ELSE rest

EmptyLog ==
  [extractions |-> {}, written |-> {}, entriesGone |-> {}, iconsGone |-> {},
   removedNotes |-> <<>>, deleted |-> {}, startApps |-> EmptyFn, startFiles |-> {},
   startAlias |-> <<>>, aliasCalls |-> <<>>, handled |-> [a \in Arts |-> 0]]

\* nobody is inside the lock
InitLock ==
  /\ file_lock = {}
  /\ abuf = [c \in Callers |-> <<>>]

\* the part of the initial state that is the same in every specification
InitEngine ==
  /\ ws = EmptyFn
  /\ workers = [i \in 1..MaxWorkers |-> IdleWorker]
  /\ events = <<>>
  /\ hpc = [pc |-> "idle", art |-> "none"]
  /\ ops = 0
  /\ log = [EmptyLog EXCEPT !.startApps = apps, !.startFiles = files,
                            !.startAlias = aliasLines]
  /\ InitLock
  /\ probe = "none"

\* stable, readable files on a file system that answers without error
InitStableFiles ==
  /\ fsize = [a \in Arts |-> 1]
  /\ growing = {}
  /\ readable = [a \in Arts |-> TRUE]
  /\ ioFaulty = FALSE

\* the installed state main() finds: the records of P, and other entries
InitInstalled(P, other) ==
  /\ apps = Merge(InstalledApps(P), other)
  /\ icons = InstalledIcons(P) \cup {OutsideIcon}
  /\ aliasLines = InstalledAlias(P, ArtOrder)

(***************************************************************************)
(* update_alias_file step by step: the lock, the read, the write.  The     *)
(* actions AddAlias and RemoveAlias above take the three steps at once.    *)
(***************************************************************************)

\* "with file_lock:" lets a thread in when no thread is inside
CanAcquireAlways == TRUE
CanAcquire == file_lock = {}

\* the calls made so far, applied one after the other to the given lines
RECURSIVE ApplyCalls(_, _)
ApplyCalls(lines, calls) ==
  IF calls = <<>> THEN lines
  ELSE LET c == calls[Len(calls)]
       IN  update_alias_file(ApplyCalls(lines, SubSeq(calls, 1, Len(calls) - 1)),
                             NameOf(c.art), PathOf(c.art), c.remove)

\* an integration thread enters the lock
LockAdd(i) ==
  /\ workers[i].pc = "alias"
  /\ CanAcquire
  /\ file_lock' = file_lock \cup {i}
  /\ workers' = [workers EXCEPT ![i] = [@ EXCEPT !.pc = "alias_read"]]
  /\ UNCHANGED <<envVars, apps, icons, aliasLines, ws, events, hpc, mpc, ops, busyLeft,
                 log, abuf>>

\* lines = f.readlines()
ReadAdd(i) ==
  /\ workers[i].pc = "alias_read"
  /\ abuf' = [abuf EXCEPT ![i] = aliasLines]
  /\ workers' = [workers EXCEPT ![i] = [@ EXCEPT !.pc = "alias_write"]]
  /\ UNCHANGED <<envVars, apps, icons, aliasLines, ws, events, hpc, mpc, ops, busyLeft,
                 log, file_lock>>

\* f.writelines(new_lines), computed from what was read; the lock is released
WriteAdd(i) ==
  /\ workers[i].pc = "alias_write"
  /\ LET w == workers[i]
         a == w.art
     IN  /\ aliasLines' = update_alias_file(abuf[i], NameOf(a), PathOf(a), FALSE)
         /\ log' = [log EXCEPT !.written = @ \cup {a},
                               !.aliasCalls = Append(@, [art |-> a, remove |-> FALSE])]
         /\ workers' = [workers EXCEPT ![i] = [w EXCEPT !.pc = "rmtree"]]
  /\ file_lock' = file_lock \ {i}
  /\ abuf' = [abuf EXCEPT ![i] = <<>>]
  /\ UNCHANGED <<envVars, apps, icons, ws, events, hpc, mpc, ops, busyLeft>>

\* the observer thread, in remove_integration, enters the lock
LockRemove ==
  /\ hpc.pc = "rm_alias"
  /\ CanAcquire
  /\ file_lock' = file_lock \cup {0}
  /\ hpc' = [hpc EXCEPT !.pc = "rm_alias_read"]
  /\ UNCHANGED <<envVars, apps, icons, aliasLines, ws, workers, events, mpc, ops,
                 busyLeft, log, abuf>>

ReadRemove ==
  /\ hpc.pc = "rm_alias_read"
  /\ abuf' = [abuf EXCEPT ![0] = aliasLines]
  /\ hpc' = [hpc EXCEPT !.pc = "rm_alias_write"]
  /\ UNCHANGED <<envVars, apps, icons, aliasLines, ws, workers, events, mpc, ops,
                 busyLeft, log, file_lock>>

WriteRemove ==
  /\ hpc.pc = "rm_alias_write"
  /\ aliasLines' = update_alias_file(abuf[0], NameOf(hpc.art), PathOf(hpc.art), TRUE)
  /\ log' = [log EXCEPT !.removedNotes = Append(@, hpc.art),
                        !.aliasCalls = Append(@, [art |-> hpc.art, remove |-> TRUE])]
  /\ hpc' = [pc |-> "idle", art |-> "none"]
  /\ file_lock' = file_lock \ {0}
  /\ abuf' = [abuf EXCEPT ![0] = <<>>]
  /\ UNCHANGED <<envVars, apps, icons, ws, workers, events, mpc, ops, busyLeft>>

\* an integration thread with update_alias_file taken step by step
WorkerStepLocked(i) ==
  \/ Poll(i) \/ Validate(i) \/ Gate(i) \/ Mkdir(i) \/ Extract(i) \/ FindDesktop(i)
  \/ FindIcon(i) \/ CopyIcon(i) \/ Parse(i) \/ WriteEntry(i)
  \/ LockAdd(i) \/ ReadAdd(i) \/ WriteAdd(i)
  \/ Rmtree(i) \/ Unlink(i)

(***************************************************************************)
(* The daemon: startup, then creation and deletion events.                 *)
(***************************************************************************)

\* what the daemon may find at startup: <<artifacts present, artifacts installed>>
StartChoices ==
  {<<{}, {}>>, <<{"a1"}, {}>>, <<{"a1"}, {"a1"}>>, <<{"a3"}, {}>>, <<{}, {"a1"}>>}

\* the menu entries of other programs it may find
OtherChoices == {EmptyFn, ForeignSibling, ForeignLauncher}

Init ==
  /\ bundle = DefaultBundles
  /\ store \in {PartialStore, NoStore}
  /\ InitStableFiles
  /\ \E c \in StartChoices : \E other \in OtherChoices :
        files = c[1] /\ InitInstalled(c[2], other)
  /\ mpc = "clean_entries"
  /\ busyLeft = 0
  /\ InitEngine

Next ==
  \/ CleanEntries \/ CleanAlias \/ Scan
  \/ \E a \in Arts : CreateFile(a) \/ DeleteFile(a) \/ DuplicateCreated(a)
  \/ OnCreated \/ OnDeleted \/ RemoveAlias
  \/ \E i \in 1..MaxWorkers : WorkerStep(i)

Spec == Init /\ [][Next]_vars

(***************************************************************************)
(* The startup sweep on its own: any installed state, no event.            *)
(***************************************************************************)

\* the sets of artifacts earlier runs may have left records of (one per name)
InstalledChoices == {{}, {"a1"}, {"a2"}, {"a3"}, {"a1", "a3"}, {"a2", "a3"}}

InitSweep ==
  /\ bundle = DefaultBundles
  /\ store \in {FullStore, PartialStore, NoStore}
  /\ InitStableFiles
  /\ files \in {F \in SUBSET Arts : Cardinality(F) <= MaxWorkers}
  /\ \E P \in InstalledChoices : \E other \in OtherChoices : InitInstalled(P, other)
  /\ mpc = "clean_entries"
  /\ busyLeft = 0
  /\ InitEngine

NextSweep ==
  \/ CleanEntries \/ CleanAlias \/ Scan
  \/ \E i \in 1..MaxWorkers : WorkerStep(i)

SpecSweep == InitSweep /\ [][NextSweep]_vars

(***************************************************************************)
(* is_valid_appbox on its own, on the file and the trust store it may      *)
(* find.                                                                   *)
(***************************************************************************)

\* file name stems: well-formed ones, one of two tokens, one of one token, the
\* two spellings of an architecture, one no manifest knows
ProbeStems ==
  {Stem("a1"), Stem("a3"), <<"a", "p", "p", "-", "1">>, <<"a", "p", "p">>, <<"a", "p", "p", "-", "1", "-", "a", "a", "r", "c", "h", "6", "4">>, <<"a", "p", "p", "-", "1", "-", "a", "m", "d", "6", "4">>,
   <<"z", "e", "d", "-", "1", "-", "x", "8", "6", "_", "6", "4">>}

\* a store whose only manifest is for arm64, with a marker for every stem
ArmStore ==
  [present |-> TRUE,
   manifests |-> {[name |-> <<"a", "p", "p">>, arch |-> <<"a", "r", "m", "6", "4">>]},
   markers |-> ProbeStems]

\* trust stores: absent, complete, a marker missing, no manifest at all, no
\* marker at all, another architecture
ProbeStores ==
  {NoStore, FullStore, PartialStore, [FullStore EXCEPT !.manifests = {}],
   [FullStore EXCEPT !.markers = {}], ArmStore}

\* a file that is not there has no ELF magic to read
ProbeInputs ==
  {p \in [exists : BOOLEAN, elf : BOOLEAN, st : ProbeStores, stem : ProbeStems,
          reason : {"unset"}] : p.elf => p.exists}

InitValidate ==
  /\ probe \in ProbeInputs
  /\ bundle = DefaultBundles
  /\ store = probe.st
  /\ InitStableFiles
  /\ files = {}
  /\ InitInstalled({}, EmptyFn)
  /\ mpc = "watch"
  /\ busyLeft = 0
  /\ ws = EmptyFn
  /\ workers = [i \in 1..MaxWorkers |-> IdleWorker]
  /\ events = <<>>
  /\ hpc = [pc |-> "idle", art |-> "none"]
  /\ ops = 0
  /\ log = EmptyLog
  /\ InitLock

\* is_valid_appbox(path) is called
ApplyValidate ==
  /\ probe.reason = "unset"
  /\ probe' = [probe EXCEPT !.reason = is_valid_appbox(probe.exists, probe.elf, probe.st,
                                                        probe.stem)]
  /\ UNCHANGED lockVars
  /\ UNCHANGED <<files, fsize, growing, readable, bundle, store, apps, icons, aliasLines,
                 ws, workers, events, hpc, mpc, ops, busyLeft, log, ioFaulty>>

SpecValidate == InitValidate /\ [][ApplyValidate]_vars

(***************************************************************************)
(* One artifact that is being written while the daemon watches.            *)
(***************************************************************************)

\* the writer of the file appends to it
Grow(a) ==
  /\ a \in files /\ a \in growing /\ fsize[a] < MaxSize
  /\ fsize' = [fsize EXCEPT ![a] = @ + 1]
  /\ UNCHANGED lockVars
  /\ UNCHANGED <<files, growing, readable, bundle, store, ioFaulty, probe, apps, icons, aliasLines,
                 ws, workers, events, hpc, mpc, ops, busyLeft, log>>

\* the writer is done
FinishWrite(a) ==
  /\ a \in growing
  /\ growing' = growing \ {a}
  /\ UNCHANGED lockVars
  /\ UNCHANGED <<files, fsize, readable, bundle, store, ioFaulty, probe, apps, icons, aliasLines,
                 ws, workers, events, hpc, mpc, ops, busyLeft, log>>

\* the read permission of the file is given or taken away
SetReadable(a) ==
  /\ a \in files
  /\ readable' = [readable EXCEPT ![a] = ~@]
  /\ UNCHANGED lockVars
  /\ UNCHANGED <<files, fsize, growing, bundle, store, ioFaulty, probe, apps, icons, aliasLines,
                 ws, workers, events, hpc, mpc, ops, busyLeft, log>>

\* the daemon watches an empty installation; a1 has just appeared and its
\* creation event is queued
InitOneCreated ==
  /\ files = {"a1"}
  /\ InitInstalled({}, EmptyFn)
  /\ mpc = "watch"
  /\ ws = EmptyFn
  /\ workers = [i \in 1..MaxWorkers |-> IdleWorker]
  /\ events = <<[kind |-> "created", art |-> "a1"]>>
  /\ hpc = [pc |-> "idle", art |-> "none"]
  /\ ops = 0
  /\ log = [EmptyLog EXCEPT !.startApps = apps, !.startAlias = aliasLines]
  /\ InitLock
  /\ probe = "none"

InitReady ==
  /\ bundle = DefaultBundles
  /\ store = FullStore
  /\ fsize = [a \in Arts |-> 1]
  /\ growing \in {{}, {"a1"}}
  /\ readable \in {[a \in Arts |-> TRUE], [a \in Arts |-> a # "a1"]}
  /\ ioFaulty = FALSE
  /\ busyLeft = 0
  /\ InitOneCreated

NextReady ==
  \/ \E a \in Arts : Grow(a) \/ FinishWrite(a) \/ SetReadable(a)
  \/ OnCreated
  \/ \E i \in 1..MaxWorkers : WorkerStep(i)

SpecReady == InitReady /\ [][NextReady]_vars

(***************************************************************************)
(* One artifact whose extraction may find the file busy, or fail.          *)
(***************************************************************************)

InitExtract ==
  /\ bundle \in {DefaultBundles, [DefaultBundles EXCEPT !["a1"].extract = "error"]}
  /\ store = FullStore
  /\ InitStableFiles
  /\ busyLeft \in 0..MaxBusy
  /\ InitOneCreated

NextExtract ==
  \/ OnCreated
  \/ \E i \in 1..MaxWorkers : WorkerStep(i)

SpecExtract == InitExtract /\ [][NextExtract]_vars

(***************************************************************************)
(* One artifact whose descriptor carries one of several NoDisplay values,  *)
(* beside an alias file that may hold lines already.                       *)
(***************************************************************************)

\* the values of NoDisplay in the descriptor; <<>>: the key is absent
NoDisplayValues ==
  {<<>>, <<"t", "r", "u", "e">>, <<"T", "r", "u", "e">>, <<"T", "R", "U", "E">>, <<"t", "R", "u", "E">>,
   <<"f", "a", "l", "s", "e">>, <<"F", "a", "l", "s", "e">>, <<"y", "e", "s">>}

InitEntries ==
  /\ bundle \in {[DefaultBundles EXCEPT !["a1"].nodisplay = v] : v \in NoDisplayValues}
  /\ store = FullStore
  /\ InitStableFiles
  /\ busyLeft = 0
  /\ files = {"a1"}
  /\ apps = EmptyFn
  /\ icons = {OutsideIcon}
  /\ aliasLines \in {<<>>, <<<<"x", "\n">>>>}
  /\ mpc = "watch"
  /\ ws = EmptyFn
  /\ workers = [i \in 1..MaxWorkers |-> IdleWorker]
  /\ events = <<[kind |-> "created", art |-> "a1"]>>
  /\ hpc = [pc |-> "idle", art |-> "none"]
  /\ ops = 0
  /\ log = [EmptyLog EXCEPT !.startApps = apps, !.startAlias = aliasLines]
  /\ InitLock
  /\ probe = "none"

SpecEntries == InitEntries /\ [][NextExtract]_vars

(***************************************************************************)
(* One artifact whose bundle may be defective, on a file system that may   *)
(* answer with I/O errors.                                                 *)
(***************************************************************************)

\* the bundles a1 may be: its descriptor parses, is malformed or is missing; its
\* extraction works or fails
BundleChoices ==
  {[DefaultBundles EXCEPT !["a1"].desktop = d, !["a1"].extract = e] :
     d \in {"ok", "bad", "none"}, e \in {"ok", "error"}}

InitFaults ==
  /\ bundle \in BundleChoices
  /\ store \in {FullStore, NoStore}
  /\ fsize = [a \in Arts |-> 1]
  /\ growing = {}
  /\ readable = [a \in Arts |-> TRUE]
  /\ ioFaulty \in BOOLEAN
  /\ busyLeft = 0
  /\ InitOneCreated

SpecFaults == InitFaults /\ [][NextExtract]_vars

(***************************************************************************)
(* The daemon with update_alias_file taken step by step: two command-line  *)
(* applications of different names, so that integration threads and the    *)
(* observer thread meet at the alias file.                                 *)
(***************************************************************************)

LockArts == {"a1", "a3"}

\* a1 and a3 both declare NoDisplay=True
CliBundles == [DefaultBundles EXCEPT !["a3"].nodisplay = <<"T", "r", "u", "e">>]

\* <<artifacts present, artifacts installed>> at startup
LockChoices == {<<{"a1", "a3"}, {}>>, <<{"a3"}, {"a3"}>>, <<{"a1", "a3"}, {"a3"}>>}

InitLocked ==
  /\ bundle = CliBundles
  /\ store = FullStore
  /\ InitStableFiles
  /\ \E c \in LockChoices : files = c[1] /\ InitInstalled(c[2], EmptyFn)
  /\ mpc = "clean_entries"
  /\ busyLeft = 0
  /\ InitEngine

NextLocked ==
  \/ CleanEntries \/ CleanAlias \/ Scan
  \/ \E a \in LockArts : CreateFile(a) \/ DeleteFile(a)
  \/ OnCreated \/ OnDeleted
  \/ LockRemove \/ ReadRemove \/ WriteRemove
  \/ \E i \in 1..MaxWorkers : WorkerStepLocked(i)

SpecLocked == InitLocked /\ [][NextLocked]_vars

(***************************************************************************)
(* The daemon when deletion events may be delivered twice.                 *)
(***************************************************************************)

\* <<artifacts present, artifacts installed>> at startup
ReplayChoices == {<<{"a1"}, {"a1"}>>, <<{"a1", "a3"}, {"a1"}>>, <<{"a1", "a3"}, {"a1", "a3"}>>}

InitReplay ==
  /\ bundle = DefaultBundles
  /\ store = FullStore
  /\ InitStableFiles
  /\ \E c \in ReplayChoices : \E other \in OtherChoices :
        files = c[1] /\ InitInstalled(c[2], other)
  /\ mpc = "clean_entries"
  /\ busyLeft = 0
  /\ InitEngine

NextReplay ==
  \/ Next
  \/ \E a \in Arts : DuplicateDeleted(a)

SpecReplay == InitReplay /\ [][NextReplay]_vars

(***************************************************************************)
(* The daemon on a file system that may answer with I/O errors, with one   *)
(* artifact installed and another one to integrate.                        *)
(***************************************************************************)

InitFaulty ==
  /\ bundle \in {[DefaultBundles EXCEPT !["a3"].desktop = d] : d \in {"ok", "bad"}}
  /\ store = FullStore
  /\ fsize = [a \in Arts |-> 1]
  /\ growing = {}
  /\ readable = [a \in Arts |-> TRUE]
  /\ ioFaulty \in BOOLEAN
  /\ files = {"a1"} /\ InitInstalled({"a1"}, EmptyFn)
  /\ mpc = "clean_entries"
  /\ busyLeft = 0
  /\ InitEngine

SpecFaulty == InitFaulty /\ [][Next]_vars

(***************************************************************************)
(* update_alias_file on its own, on alias files with user content.         *)
(***************************************************************************)

\* the name the calls are for, and a longer name it is a prefix of
ProbeName == <<"a", "p", "p">>
LongerName == <<"a", "p", "p", "x">>

\* terminated lines an alias file may hold: the two lines of a block of the
\* name, those of a block of the longer name, a command of the user, an empty
\* line, an indented header of the name
AliasPool ==
  {AliasHeader(ProbeName), AliasCmd(ProbeName, PathOf("a2")),
   AliasHeader(LongerName), AliasCmd(LongerName, PathOf("a3")),
   <<"l", "s", "\n">>, <<"\n">>, <<" ", " ">> \o AliasHeader(ProbeName)}

\* what may follow the last newline of the file
AliasTails == {<<>>, <<"l", "s">>, <<" ">>, AliasForText \o <<" ">> \o ProbeName}

\* alias files of at most MaxLines terminated lines and a tail
AliasTexts ==
  {writelines(ls) \o t : ls \in UNION {[1..n -> AliasPool] : n \in 0..MaxLines},
                         t \in AliasTails}

InitAlias ==
  /\ \E text \in AliasTexts :
       probe = [orig |-> text, prev |-> text, now |-> text, calls |-> <<>>]
  /\ bundle = DefaultBundles
  /\ store = FullStore
  /\ InitStableFiles
  /\ files = {}
  /\ InitInstalled({}, EmptyFn)
  /\ mpc = "watch"
  /\ busyLeft = 0
  /\ ws = EmptyFn
  /\ workers = [i \in 1..MaxWorkers |-> IdleWorker]
  /\ events = <<>>
  /\ hpc = [pc |-> "idle", art |-> "none"]
  /\ ops = 0
  /\ log = EmptyLog
  /\ InitLock

\* update_alias_file(name, path, remove) is called on the file
ApplyAlias(remove) ==
  /\ Len(probe.calls) < MaxCalls
  /\ probe' = [probe EXCEPT
       !.prev = probe.now,
       !.now = AliasFileAfter(probe.now, ProbeName, PathOf("a1"), remove),
       !.calls = Append(@, IF remove THEN "remove" ELSE "add")]
  /\ UNCHANGED lockVars
  /\ UNCHANGED <<files, fsize, growing, readable, bundle, store, apps, icons, aliasLines,
                 ws, workers, events, hpc, mpc, ops, busyLeft, log, ioFaulty>>

NextAlias == \E remove \in BOOLEAN : ApplyAlias(remove)

SpecAlias == InitAlias /\ [][NextAlias]_vars

(***************************************************************************)
(* sanitize_name(get_base_app_name(stem)) on its own, over the stems made  *)
(* of up to MaxTokens tokens joined by '-'.                                *)
(***************************************************************************)

\* names, versions, architectures, tokens with ':', '+', '~', the empty token
TokenPool ==
  {<<"f", "i", "r", "e", "f", "o", "x">>, <<"m", "y">>, <<"a", "p", "p">>, <<"2", ".", "1", ".", "0">>,
   <<"x", "8", "6", "_", "6", "4">>, <<"c", "+", "t">>, <<"a", ":", "b", "~">>, <<>>}

Firefox == <<"f", "i", "r", "e", "f", "o", "x", "-", "1", "2", "0", ".", "0", "-", "x", "8", "6", "_", "6", "4">>
MyApp == <<"m", "y", "-", "a", "p", "p", "-", "2", ".", "1", ".", "0", "-", "a", "a", "r", "c", "h", "6", "4">>

NameStems ==
  {JoinDash(t) : t \in UNION {[1..n -> TokenPool] : n \in 1..MaxTokens}}
    \cup {Firefox, MyApp}

InitNames ==
  /\ \E stem \in NameStems : probe = [stem |-> stem, name |-> <<>>, done |-> FALSE]
  /\ bundle = DefaultBundles
  /\ store = FullStore
  /\ InitStableFiles
  /\ files = {}
  /\ InitInstalled({}, EmptyFn)
  /\ mpc = "watch"
  /\ busyLeft = 0
  /\ ws = EmptyFn
  /\ workers = [i \in 1..MaxWorkers |-> IdleWorker]
  /\ events = <<>>
  /\ hpc = [pc |-> "idle", art |-> "none"]
  /\ ops = 0
  /\ log = EmptyLog
  /\ InitLock

\* appbox_name = sanitize_name(get_base_app_name(appbox_path.stem))
ApplyName ==
  /\ ~probe.done
  /\ probe' = [probe EXCEPT !.name = AppName(probe.stem), !.done = TRUE]
  /\ UNCHANGED lockVars
  /\ UNCHANGED <<files, fsize, growing, readable, bundle, store, apps, icons, aliasLines,
                 ws, workers, events, hpc, mpc, ops, busyLeft, log, ioFaulty>>

SpecNames == InitNames /\ [][ApplyName]_vars

(***************************************************************************)
(* Properties.                                                             *)
(***************************************************************************)

\* every event is dispatched, the deletion handler is idle, every thread is over
Quiescent == mpc = "watch" /\ events = <<>> /\ hpc.pc = "idle" /\ Running = {}

\* the artifact passes every check of is_valid_appbox that does not depend on
\* the file being there
StaticallyValid(a) ==
  is_valid_appbox(TRUE, bundle[a].elf, store, Stem(a)) = "Valid AppBox"

\* the threads that ran on artifact a and are over
WorkersDoneFor(a) == {i \in 1..MaxWorkers : workers[i].pc = "done" /\ workers[i].art = a}

\* the icons in the managed directory under the name n
IconsOfName(n) == {p \in icons : \E sfx \in {PngExt, SvgExt} : p = IconDest(n, sfx)}

\* the lines of the alias file that open a block of name n
AliasBlocks(n) == {i \in 1..Len(aliasLines) : IsBlockAt(aliasLines, i, n)}

\* no other artifact of the same sanitized base name is present or was installed
NameOnlyOf(a) ==
  \A b \in Arts \ {a} :
    NameOf(b) = NameOf(a)
    => /\ b \notin files
       /\ \A f \in DOMAIN log.startApps : ~Contains(log.startApps[f].Exec, PathOf(b))

\* C1: once two workers started for the same artifact path have both finished
\* (the artifact is valid, present and was never deleted), there is exactly one
\* menu entry for its sanitized base name, exactly one icon for that name when
\* the bundle has an icon, and exactly one alias block when it is a CLI
\* application.
C1_OneRecordPerArtifact ==
  \A a \in Arts :
    (/\ Cardinality(WorkersDoneFor(a)) >= 2
     /\ Running = {}
     /\ a \in files /\ log.deleted = {}
     /\ NameOnlyOf(a)
     /\ StaticallyValid(a))
    => /\ DesktopFile(NameOf(a)) \in DOMAIN apps
       /\ Cardinality(IconsOfName(NameOf(a))) = (IF bundle[a].icons = <<>> THEN 0 ELSE 1)
       /\ Cardinality(AliasBlocks(NameOf(a))) =
            (IF is_cli_app(bundle[a].nodisplay) THEN 1 ELSE 0)

\* the file an Exec line runs: its first word
ExecTarget(exec) == FirstWord(exec)

\* the path names something inside the watched directory
UnderWatchDir(path) == InParents(WatchDir, Resolve(path))

\* the path names something inside the managed icon directory
UnderIconsDir(path) == InParents(IconsDir, Resolve(path))

\* the name a menu entry file carries: its file name without ".desktop"
EntryName(f) == SubSeq(f, 1, Len(f) - Len(DesktopExt))

\* the menu entries whose Exec runs a file of the watched directory
ManagedEntries == {f \in DOMAIN apps : UnderWatchDir(ExecTarget(apps[f].Exec))}

\* the trust store vouches for the file name stem: the store is there, the stem
\* has three tokens, a manifest matches it and its build marker exists
TrustedBy(st, stem) ==
  /\ st.present
  /\ Len(SplitOn(stem, "-")) >= 3
  /\ found_yaml(st.manifests, stem)
  /\ stem \in st.markers

\* the artifact is a trusted ELF file whose bundle extracts and holds a menu
\* entry descriptor that parses
Installable(a) ==
  /\ bundle[a].elf /\ TrustedBy(store, Stem(a))
  /\ bundle[a].extract = "ok" /\ bundle[a].desktop = "ok"

\* the sweep is over: stale removal and scan done, every catch-up thread over
SweepDone == mpc = "watch" /\ Running = {}

\* C2: after one sweep (stale removal, then catch-up installation, every
\* catch-up thread over) no menu entry is left whose Exec runs a file of the
\* watched directory that is not there, and every artifact that is there,
\* passes validation and extracts has a menu entry at its sanitized base name,
\* whatever the installed state was when the sweep started.
C2_SweepConverges ==
  SweepDone =>
    /\ \A f \in ManagedEntries : ExecTarget(apps[f].Exec) \in ExistingAppboxes
    /\ \A a \in files : Installable(a) => DesktopFile(NameOf(a)) \in DOMAIN apps

\* C2 as stated: after one sweep there are exactly N engine-managed menu
\* entries, N the number of artifacts in the watched directory.
C2_ExactlyNEntries ==
  SweepDone => Cardinality(ManagedEntries) = Cardinality(files)

\* the sweep removed a stale entry of the watched directory and a catch-up
\* thread installed a missing one
C2_Witness ==
  /\ SweepDone
  /\ \E r \in log.entriesGone : r.by = "sweep" /\ UnderWatchDir(ExecTarget(r.Exec))
  /\ \E i \in 1..MaxWorkers : workers[i].pc = "done" /\ workers[i].result = "installed"

\* the daemon found no stale menu entry when it started
NothingStaleAtStart ==
  \A f \in DOMAIN log.startApps :
    UnderWatchDir(ExecTarget(log.startApps[f].Exec))
    => ExecTarget(log.startApps[f].Exec) \in {PathOf(a) : a \in log.startFiles}

\* C3: in a quiescent state of a daemon that found nothing stale at startup, no
\* menu entry, icon of the managed directory or alias block refers to an
\* artifact that was deleted from the watched directory and is absent, also
\* when the deletion event was handled while the artifact's integration thread
\* was running.
C3_NoRecordOfDeletedArtifact ==
  (Quiescent /\ NothingStaleAtStart) =>
    \A a \in log.deleted \ files :
      /\ \A f \in DOMAIN apps : ExecTarget(apps[f].Exec) # PathOf(a)
      /\ \A i \in 1..Len(aliasLines) : QuotedPath(aliasLines[i]) # PathOf(a)
      /\ (\A b \in files : NameOf(b) # NameOf(a)) => IconsOfName(NameOf(a)) = {}

\* C4: in a quiescent state, every artifact that is there, stable, valid and
\* extractable has a menu entry at <sanitized-base-name>.desktop whose Exec is
\* the path of an artifact that is there.
C4_PresentArtifactHasEntry ==
  Quiescent =>
    \A a \in files :
      Installable(a) =>
        /\ DesktopFile(NameOf(a)) \in DOMAIN apps
        /\ ExecTarget(apps[DesktopFile(NameOf(a))].Exec) \in ExistingAppboxes

\* C5: when the stale-removal pass of the sweep is over, every menu entry it
\* found whose Exec lies under the watched directory and is not the path of an
\* artifact that is there is deleted, the icon the entry referenced is deleted
\* when it is under the managed icon directory, and the entry's alias block is
\* gone from the alias file.
C5_StaleRecordsRemoved ==
  mpc = "scan" =>
    \A f \in DOMAIN log.startApps :
      LET e == log.startApps[f]
      IN  (UnderWatchDir(ExecTarget(e.Exec)) /\ ExecTarget(e.Exec) \notin ExistingAppboxes)
          => /\ f \notin DOMAIN apps
             /\ UnderIconsDir(e.Icon) => Resolve(e.Icon) \notin icons
             /\ AliasBlocks(EntryName(f)) = {}

\* C6: every icon file the engine deleted lay inside the managed icon
\* directory, and every menu entry it deleted had an Exec that runs the deleted
\* artifact (deletion handling) or a file of the watched directory that was not
\* there (sweep).
C6_DeletesOnlyItsOwn ==
  /\ \A p \in log.iconsGone : UnderIconsDir(p)
  /\ \A r \in log.entriesGone :
       /\ UnderWatchDir(ExecTarget(r.Exec))
       /\ r.by = "deleted" => ExecTarget(r.Exec) = PathOf(r.art)
       /\ r.by = "sweep" => ExecTarget(r.Exec) \notin {PathOf(a) : a \in log.startFiles}

\* the positions of integrate_appbox behind the validation
PastValidation ==
  {"gate", "mkdir", "extract", "find_desktop", "find_icon", "copy_icon", "parse", "write",
   "alias", "rmtree", "unlink"}

\* C7: validation is fail-closed: an artifact is extracted, or gets a menu
\* entry, icon or alias block written, only if it is an ELF file the trust store
\* vouches for; with the trust store absent no thread gets past validation,
\* nothing is extracted and nothing is installed, for the threads of the scan
\* and for those of creation events.
C7_FailClosed ==
  /\ \A a \in log.extractions \cup log.written : bundle[a].elf /\ TrustedBy(store, Stem(a))
  /\ \A i \in 1..MaxWorkers :
       workers[i].pc \in PastValidation
       => bundle[workers[i].art].elf /\ TrustedBy(store, Stem(workers[i].art))
  /\ ~store.present =>
       /\ log.extractions = {} /\ log.written = {} /\ ws = EmptyFn
       /\ DOMAIN apps \subseteq DOMAIN log.startApps
       /\ \A i \in 1..MaxWorkers : workers[i].result \notin {"installed", "skipped"}

\* with the trust store absent, a thread of the scan and a thread of a creation
\* event both ended at the validation
C7_Witness ==
  /\ ~store.present
  /\ \E i, j \in 1..MaxWorkers :
       /\ workers[i].pc = "done" /\ workers[i].result = "invalid"
       /\ workers[i].art \in log.startFiles
       /\ workers[j].pc = "done" /\ workers[j].result = "invalid"
       /\ workers[j].art \notin log.startFiles

\* a check of the validator fails on the probed input
CheckFails(check, p) ==
  CASE check = "exists"   -> ~p.exists
    [] check = "elf"      -> ~p.elf
    [] check = "store"    -> ~p.st.present
    [] check = "format"   -> Len(SplitOn(p.stem, "-")) < 3
    [] check = "manifest" -> ~found_yaml(p.st.manifests, p.stem)
    [] OTHER              -> p.stem \notin p.st.markers

\* the Reason of a check
ReasonOf(check) ==
  CASE check = "exists"   -> "File does not exist"
    [] check = "elf"      -> "Not a valid ELF binary"
    [] check = "store"    -> "No nx-apphub-cli directory found - AppBox definitions missing"
    [] check = "format"   -> "Invalid AppBox filename format"
    [] check = "manifest" -> "No corresponding YAML definition found - not a valid AppBox"
    [] OTHER              -> "No build marker found - AppBox not built by nx-apphub-cli"

\* the Reason of the first check of the order that fails; Valid when none does
FirstFailing(order, p) ==
  IF \E k \in 1..Len(order) : CheckFails(order[k], p)
  THEN ReasonOf(order[CHOOSE k \in 1..Len(order) :
                        /\ CheckFails(order[k], p)
                        /\ \A l \in 1..(k - 1) : ~CheckFails(order[l], p)])
  ELSE "Valid AppBox"

\* C8: the validator returns the Reason of the first failing check in the
\* order: file exists, ELF magic, trust store directory exists, stem has at least
\* 3 tokens, a manifest matches name prefix and architecture, the build marker
\* exists; it returns Valid only when all six pass.
C8_FirstFailingCheck ==
  probe.reason # "unset" =>
    probe.reason = FirstFailing(<<"exists", "elf", "store", "format", "manifest", "marker">>,
                                probe)

\* C8 as stated: the order is file exists, ELF magic, stem has at least 3
\* tokens, a manifest of the trust store matches, the build marker exists, and
\* the Reason is that of the first of these five that fails.
C8_FiveChecksInOrder ==
  probe.reason # "unset" =>
    probe.reason = FirstFailing(<<"exists", "elf", "format", "manifest", "marker">>, probe)

\* the validator answered for an ELF file whose stem is malformed while the
\* trust store is absent: two checks fail at once
C8_Witness ==
  /\ probe.reason # "unset"
  /\ probe.exists /\ probe.elf
  /\ ~probe.st.present /\ Len(SplitOn(probe.stem, "-")) < 3

\* the sizes a thread observed differ between every two consecutive polls
AlwaysChanged(seen) == \A k \in 1..(Len(seen) - 1) : seen[k][1] # seen[k + 1][1]

\* C9: a thread whose polls saw a different size every time until the timeout
\* ends at the timeout, and a thread that ended at the timeout created no menu
\* entry, icon, alias block or workspace; a thread gets past the readiness gate
\* only when its last two observed sizes were equal and the file was readable.
C9_ReadinessGate ==
  \A i \in 1..MaxWorkers :
    LET w == workers[i]
        n == Len(w.seen)
    IN  /\ (w.pc = "done" /\ AlwaysChanged(w.seen)) => w.result = "timeout"
        /\ (w.pc = "done" /\ w.result = "timeout")
           => /\ apps = log.startApps /\ ws = EmptyFn /\ aliasLines = <<>>
              /\ IconsOfName(NameOf(w.art)) = {}
              /\ log.extractions = {} /\ log.written = {}
        /\ (w.pc \notin {"idle", "poll"} /\ w.result # "timeout")
           => /\ n >= 2
              /\ w.seen[n][1] = w.seen[n - 1][1]
              /\ w.seen[n][2]

\* a thread polled a readable file that grew between every two polls, and
\* ended at the timeout
C9_Witness ==
  \E i \in 1..MaxWorkers :
    /\ workers[i].pc = "done" /\ workers[i].result = "timeout"
    /\ Len(workers[i].seen) = MaxPolls
    /\ AlwaysChanged(workers[i].seen)
    /\ \A k \in 1..MaxPolls : workers[i].seen[k][2]

\* C10: the extraction is attempted at most 5 times, and again only after a
\* busy-file failure; busy on attempts 1-4 and success on attempt 5 ends with
\* the menu entry written, busy on all 5 attempts ends without menu entry and
\* with the workspace removed, and any other failure ends the extraction at once
\* without menu entry and with the workspace removed.
C10_RetryPolicy ==
  \A i \in 1..MaxWorkers :
    LET w == workers[i]
        n == Len(w.tries)
        entry == DesktopFile(NameOf(w.art))
    IN  /\ n <= 5
        /\ \A k \in 1..(n - 1) : w.tries[k] = "busy"
        /\ (w.pc = "done" /\ w.tries = <<"busy", "busy", "busy", "busy", "ok">>)
           => w.result = "installed" /\ entry \in DOMAIN apps
        /\ (w.pc = "done" /\ n > 0 /\ w.tries[n] = "busy")
           => /\ n = 5
              /\ w.result = "extract_failed" /\ entry \notin DOMAIN apps /\ ws = EmptyFn
        /\ (w.pc = "done" /\ n > 0 /\ w.tries[n] = "error")
           => w.result = "extract_failed" /\ entry \notin DOMAIN apps /\ ws = EmptyFn

\* a thread found the file busy four times and installed at the fifth attempt
C10_Witness ==
  \E i \in 1..MaxWorkers :
    /\ workers[i].pc = "done" /\ workers[i].result = "installed"
    /\ workers[i].tries = <<"busy", "busy", "busy", "busy", "ok">>

\* the results of a thread that ended after it had made its workspace
AfterWorkspace == {"installed", "extract_failed", "no_desktop", "bad_desktop", "io_error"}

\* C11: when an integration thread is over, by any path behind the creation of
\* its workspace (success, failed extraction, missing or malformed descriptor,
\* an I/O error of the icon copy, of the menu entry write or of the alias
\* update), and no other thread works in it, the workspace does not exist.
C11_WorkspaceRemoved ==
  \A i \in 1..MaxWorkers :
    (/\ workers[i].pc = "done" /\ workers[i].result \in AfterWorkspace
     /\ \A j \in Running : workers[j].art # workers[i].art)
    => WsName(workers[i].art) \notin DOMAIN ws

\* C12: when an integration is given up because the artifact fails validation
\* or because its menu-entry descriptor is malformed, nothing of the artifact
\* is left that was not there before: no menu entry, no icon in the icon
\* directory, no alias block and no workspace.
C12_NoPartialState ==
  \A i \in 1..MaxWorkers :
    (workers[i].pc = "done" /\ workers[i].result \in {"invalid", "bad_desktop"})
    => /\ DOMAIN apps = DOMAIN log.startApps
       /\ IconsOfName(NameOf(workers[i].art)) = {}
       /\ AliasBlocks(NameOf(workers[i].art)) = {}
       /\ WsName(workers[i].art) \notin DOMAIN ws

\* C13: an integration attempt that got past the idempotency gate and is over
\* has sent exactly one notification: "Application Installed" when it wrote the
\* menu entry, "Integration Failed" when the extraction failed or the
\* descriptor was missing or malformed.
C13_OneNotification ==
  \A i \in 1..MaxWorkers :
    LET w == workers[i]
    IN  /\ (w.pc = "done" /\ w.result = "installed")
           => w.notes = <<"Application Installed">>
        /\ (w.pc = "done" /\ w.result \in {"extract_failed", "no_desktop", "bad_desktop"})
           => w.notes = <<"Integration Failed">>

\* the two texts are equal up to the newlines at their end
SameButFinalNewlines(s, t) == RStripSet(s, {"\n"}) = RStripSet(t, {"\n"})

\* line i and line i + 1 are a block of the name: '# Alias for <name>' and,
\* right after it, 'alias <name>=...', whatever white space is around them
OwnBlockAt(lines, i, name) ==
  /\ i + 1 <= Len(lines)
  /\ Strip(lines[i]) = AliasForText \o <<" ">> \o name
  /\ StartsWith(Strip(lines[i + 1]), AliasText \o name \o <<"=">>)

\* the text holds a block of the name
HasOwnBlock(text, name) ==
  \E i \in 1..Len(readlines(text)) : OwnBlockAt(readlines(text), i, name)

\* the text ends with white space that no newline follows
BlankTail(text) ==
  /\ text # <<>> /\ text[Len(text)] # "\n"
  /\ Strip(readlines(text)[Len(readlines(text))]) = <<>>

RECURSIVE NotOwned(_, _, _)
NotOwned(lines, i, name) ==
  IF i > Len(lines) THEN <<>>
  ELSE IF OwnBlockAt(lines, i, name) \/ (i > 1 /\ OwnBlockAt(lines, i - 1, name))
       THEN NotOwned(lines, i + 1, name)
  ELSE <<lines[i]>> \o NotOwned(lines, i + 1, name)

SweptAlias == StaleAliasKeep(log.startAlias, 1, FALSE, {PathOf(a) : a \in log.startFiles})

\* C15: whatever the interleaving of the integration threads and the observer
\* thread, the alias file is what the calls of update_alias_file made so far
\* give when they run one after the other, in the order of their writes,
\* on the file the startup cleanup left; so no added or removed block is lost
C15_AliasSerialized ==
  mpc = "watch" => aliasLines = ApplyCalls(SweptAlias, log.aliasCalls)

\* the observer thread waits at the lock while an integration thread is
\* inside with the lines it read, after an earlier call has written
C15_Witness ==
  /\ mpc = "watch"
  /\ log.aliasCalls # <<>>
  /\ hpc.pc = "rm_alias"
  /\ \E i \in 1..MaxWorkers : i \in file_lock /\ workers[i].pc = "alias_write"
(***************************************************************************)
(* C17: the check that the menu entry already exists.                      *)
(***************************************************************************)

\* the installed record of artifact a exists in the entries
RecordOf(a, entries) ==
  /\ AlreadyIntegrated(NameOf(a), entries)
  /\ entries[DesktopFile(NameOf(a))].Exec = PathOf(a)

\* thread i takes the step of the check and finds the menu entry
SkipsAtGate(i) ==
  /\ workers[i].pc = "gate" /\ workers'[i].pc # "gate"
  /\ workers[i].art \in files
  /\ AlreadyIntegrated(NameOf(workers[i].art), apps)

\* thread i writes the menu entry of its artifact
WritesEntry(i) ==
  /\ workers[i].pc = "write"
  /\ workers'[i].pc \in {"alias", "rmtree"}

\* C17: a thread that finds the menu entry at the check ends there, with no
\* workspace created, no extraction run, and the menu entries, the icons and
\* the alias file as they were; and no thread writes the menu entry of an
\* artifact whose installed record exists
C17_IdempotencyGate ==
  [][\A i \in 1..MaxWorkers :
       /\ SkipsAtGate(i) =>
            /\ workers'[i].pc = "done" /\ workers'[i].result = "skipped"
            /\ workers'[i].tries = <<>> /\ workers'[i].notes = <<>>
            /\ UNCHANGED <<apps, icons, aliasLines, ws>>
            /\ log'.extractions = log.extractions
       /\ WritesEntry(i) => ~RecordOf(workers[i].art, apps)]_vars

(***************************************************************************)
(* C18: a deletion event delivered twice.                                  *)
(***************************************************************************)

\* the observer thread takes the deletion event of artifact a from the queue
HandlesDeleted(a) ==
  /\ hpc.pc = "idle" /\ events # <<>>
  /\ Head(events) = [kind |-> "deleted", art |-> a]
  /\ events' = Tail(events)

\* C18: when the deletion event of a path is handled once more, the file not
\* having come back, the handling changes neither the menu entries nor the
\* icons nor the alias file, and sends no notification
C18_ReplayIdempotent ==
  [][\A a \in Arts :
       (HandlesDeleted(a) /\ log.handled[a] >= 1 /\ a \notin files)
       => /\ UNCHANGED <<apps, icons, aliasLines>>
          /\ log'.removedNotes = log.removedNotes
          /\ hpc'.pc = "idle"]_vars
(***************************************************************************)
(* C19: a failure on one artifact and the watch loop.                      *)
(***************************************************************************)

\* how a thread ends when the integration of its artifact failed
FailedResults == {"extract_failed", "no_desktop", "bad_desktop", "io_error"}

\* the installed records of the artifacts other than a: menu entries and alias file
OthersOf(a, entries) ==
  [f \in DOMAIN entries \ {DesktopFile(NameOf(a))} |-> entries[f]]

\* C19: the step in which the handling of one artifact fails changes no
\* installed record of another artifact, and the observer thread lives on:
\* events delivered afterwards are still handled
C19_WatchLoopGoesOn ==
  [][/\ \A i \in 1..MaxWorkers :
          (workers[i].pc # "done" /\ workers'[i].pc = "done"
             /\ workers'[i].result \in FailedResults)
          => /\ OthersOf(workers[i].art, apps') = OthersOf(workers[i].art, apps)
             /\ hpc' = hpc /\ events' = events
     /\ hpc'.pc # "dead"]_vars

(***************************************************************************)
(* C20: the derivation of the base name.                                   *)
(***************************************************************************)

\* where the hyphens of s are
Hyphens(s) == {i \in 1..Len(s) : s[i] = "-"}
Least(S) == CHOOSE x \in S : \A y \in S : x <= y
Greatest(S) == CHOOSE x \in S : \A y \in S : y <= x

\* (1) the stem without its trailing '-<token>'
RefStripped(stem) ==
  IF Hyphens(stem) = {} \/ Greatest(Hyphens(stem)) = Len(stem) THEN stem
  ELSE SubSeq(stem, 1, Greatest(Hyphens(stem)) - 1)

\* (2) the first hyphen token, or (3) the first two tokens with their '-' when
\* there is a second token and it holds no digit
RefBase(stem) ==
  LET s == RefStripped(stem)
      H == Hyphens(s)
  IN  IF H = {} THEN s
      ELSE LET h1   == Least(H)
               rest == H \ {h1}
               end2 == IF rest = {} THEN Len(s) ELSE Least(rest) - 1
           IN  IF \A j \in (h1 + 1)..end2 : s[j] \notin Digits
               THEN SubSeq(s, 1, end2)
               ELSE SubSeq(s, 1, h1 - 1)

\* then every ':', '+', '~' replaced by '-'
RefName(stem) ==
  LET b == RefBase(stem)
  IN  [i \in 1..Len(b) |-> CASE b[i] = ":" -> "-" [] b[i] = "+" -> "-"
                             [] b[i] = "~" -> "-" [] OTHER -> b[i]]

\* C20: the name derived from a stem is the reference result: the trailing
\* '-<token>' stripped, the first token, or the first two when the second holds
\* no digit, ':', '+', '~' replaced by '-'; 'firefox-120.0-x86_64' gives
\* 'firefox', 'my-app-2.1.0-aarch64' gives 'my-app', and no name holds ':',
\* '+' or '~'
C20_BaseName ==
  probe.done =>
    /\ probe.name = RefName(probe.stem)
    /\ \A i \in 1..Len(probe.name) : probe.name[i] \notin {":", "+", "~"}
    /\ probe.stem = Firefox => probe.name = SubSeq(Firefox, 1, 7)
    /\ probe.stem = MyApp => probe.name = SubSeq(MyApp, 1, 6)

\* the name of a stem of four tokens whose first holds a '+' and whose second
\* holds no digit was derived: two tokens joined, the '+' replaced
C20_Witness ==
  /\ probe.done
  /\ Len(SplitOn(probe.stem, "-")) = 4
  /\ probe.stem[2] = "+"
  /\ probe.name = <<"c", "-", "t", "-", "a", "p", "p">>

(***************************************************************************)
(* C21: what the engine writes for an artifact.                            *)
(***************************************************************************)

\* the value is 'true' whatever the case of its letters
SaysTrue(v) ==
  /\ Len(v) = 4
  /\ v[1] \in {"t", "T"} /\ v[2] \in {"r", "R"} /\ v[3] \in {"u", "U"} /\ v[4] \in {"e", "E"}

\* the lines hold the block the engine writes for artifact a
BlockFor(lines, a) ==
  \E k \in 1..(Len(lines) - 1) :
    /\ lines[k] = AliasHeader(NameOf(a))
    /\ lines[k + 1] = AliasCmd(NameOf(a), PathOf(a))

\* C21: the menu entry a thread writes is stored as <sanitized base name of
\* its artifact>.desktop, with Exec and TryExec the path of the artifact in
\* the watched directory, and no other entry changes; the thread goes on to
\* add the alias block of that name exactly when the descriptor's NoDisplay is
\* 'true' in any case of letters, and the alias file changes in no other step
C21_JoinKey ==
  [][/\ \A i \in 1..MaxWorkers :
          LET a == workers[i].art
              f == DesktopFile(sanitize_name(get_base_app_name(Stem(a))))
          IN  /\ WritesEntry(i) =>
                   /\ DOMAIN apps' = DOMAIN apps \cup {f}
                   /\ apps'[f].Exec = PathOf(a) /\ apps'[f].TryExec = PathOf(a)
                   /\ UnderWatchDir(apps'[f].Exec)
                   /\ \A g \in DOMAIN apps \ {f} : apps'[g] = apps[g]
                   /\ (workers'[i].pc = "alias") <=> SaysTrue(bundle[a].nodisplay)
              /\ (workers[i].pc = "alias" /\ workers'[i].pc = "rmtree") =>
                   BlockFor(aliasLines', a)
     /\ aliasLines' # aliasLines =>
          \E i \in 1..MaxWorkers : workers[i].pc = "alias" /\ workers'[i].pc = "rmtree"]_vars

\* a thread installed the artifact whose descriptor says NoDisplay=TRUE: the
\* entry and the alias block are there
C21_Witness ==
  /\ bundle["a1"].nodisplay = <<"T", "R", "U", "E">>
  /\ \E i \in 1..MaxWorkers :
       workers[i].pc = "done" /\ workers[i].result = "installed" /\ workers[i].art = "a1"
  /\ DesktopFile(NameOf("a1")) \in DOMAIN apps
  /\ BlockFor(aliasLines, "a1")

(***************************************************************************)
(* C22: the extraction workspace and two threads.                          *)
(***************************************************************************)

\* the thread extracts into its workspace or searches it
UsesWorkspace(w) == w.pc \in {"extract", "find_desktop", "find_icon"}

\* the thread is inside shutil.rmtree of its workspace
RemovesWorkspace(w) == w.pc = "unlink"

\* C22: no thread is removing a workspace while another thread extracts into
\* the same workspace or searches it for the descriptor and the icon
C22_WorkspaceNotShared ==
  \A i, j \in 1..MaxWorkers :
    (i # j /\ RemovesWorkspace(workers[i]) /\ UsesWorkspace(workers[j]))
    => WsName(workers[i].art) # WsName(workers[j].art)

(***************************************************************************)
(* C23: the menu entry and the alias block of one name.                    *)
(***************************************************************************)

\* the alias line of the block that opens at line k runs the given path
AliasRuns(k, n, path) == Strip(aliasLines[k + 1]) = Strip(AliasCmd(n, path))

\* C23: when nothing is running and no event waits, every alias block of a
\* name that has a menu entry runs the path of that entry's Exec
C23_AliasMatchesEntry ==
  Quiescent =>
    \A f \in DOMAIN apps :
      \A k \in AliasBlocks(EntryName(f)) :
        AliasRuns(k, EntryName(f), ExecTarget(apps[f].Exec))

============================================================================
